---- MODULE Spec2Model ----
(***************************************************************************)
(* A model of nt-apiset: the decoder of the Windows API Set Map and its    *)
(* hash-indexed lookup (src/src/map.rs, hash_entry.rs, namespace_entry.rs, *)
(* value_entry.rs).                                                        *)
(*                                                                         *)
(* The section buffer is a sequence of bytes.  Every u32 field is read     *)
(* little-endian from it at its real byte offset, and every number keeps   *)
(* its real width: a number is a pair <<hi, lo>> standing for              *)
(* hi * 2^16 + lo with 0 <= lo < 2^16, so that a u32 has hi < 2^16 and a   *)
(* 64-bit usize of this program (at most 2^32 + 24 * 2^32) has hi < 2^21.  *)
(***************************************************************************)
EXTENDS Integers, Sequences, FiniteSets, TLC

VARIABLES
    section_bytes,  \* the section buffer: a sequence of bytes
    build,          \* the build of the crate: usize_bits and profile
    map,            \* "ok" once an ApiSetMap was decoded from section_bytes
    iter,           \* the iterator in the caller's hand
    yielded,        \* the records next() drew from it; -1 once nth() was used
    entry,          \* the record last yielded or found
    result,         \* what the last operation returned
    search          \* the locals of a find_namespace_entry in progress

vars == <<section_bytes, build, map, iter, yielded, entry, result, search>>

----------------------------------------------------------------------------
(* Numbers of the program's width.                                         *)

B16 == 256 * 256

W(n) == <<n \div B16, n % B16>>

WHi(w) == w[1]

WLo(w) == w[2]

WNorm(hi, lo) == <<hi + (lo \div B16), lo % B16>>

WAdd(a, b) == WNorm(a[1] + b[1], a[2] + b[2])

\* k is a record size (at most 24), so nothing here leaves TLC's integers.
WMulSmall(k, a) == WNorm(k * a[1], k * a[2])

WLt(a, b) == a[1] < b[1] \/ (a[1] = b[1] /\ a[2] < b[2])

WLe(a, b) == a = b \/ WLt(a, b)

\* a - b for b <= a
WSub(a, b) ==
    IF a[2] >= b[2] THEN <<a[1] - b[1], a[2] - b[2]>>
    ELSE <<a[1] - b[1] - 1, a[2] + B16 - b[2]>>

\* The value of a number known to be below 2^31.
WInt(w) == w[1] * B16 + w[2]

WFitsInt(w) == w[1] < 32768

Wrap32(w) == <<w[1] % B16, w[2]>>

FitsU32(w) == w[1] < B16

U32Max == <<65535, 65535>>

\* The low 16 bits of x * y for 16-bit x and y.
Mul16Lo(x, y) == ((x * (y % 256)) + ((x * (y \div 256)) % 256) * 256) % B16

\* The high 16 bits of x * y for 16-bit x and y.
Mul16Hi(x, y) ==
    LET p0 == x * (y % 256)
        p1 == x * (y \div 256)
    IN  (p1 \div 256) + ((p0 + (p1 % 256) * 256) \div B16)

\* u32::wrapping_mul
wrapping_mul(a, f) ==
    <<(Mul16Hi(a[2], f[2]) + Mul16Lo(a[1], f[2]) + Mul16Lo(a[2], f[1])) % B16,
      Mul16Lo(a[2], f[2])>>

\* u32::wrapping_add
wrapping_add(a, b) == Wrap32(WAdd(a, b))

----------------------------------------------------------------------------
(* The build: the width of usize and the profile.  The dev profile         *)
(* compiles debug_assert! and the overflow checks of + and * in, the       *)
(* release profile compiles both out.                                      *)

Builds == [usize_bits : {32, 64}, profile : {"dev", "release"}]

debug_assertions(b) == b.profile = "dev"

overflow_checks(b) == b.profile = "dev"

\* Whether a number fits usize.  A 64-bit usize holds every number the
\* model forms (below 2^47).
FitsUsize(b, w) == b.usize_bits = 64 \/ FitsU32(w)

WrapUsize(b, w) == IF b.usize_bits = 64 THEN w ELSE Wrap32(w)

\* usize::checked_mul(n, k) for a record size k: <<>> stands for None.
checked_mul(b, n, k) ==
    IF FitsUsize(b, WMulSmall(k, n)) THEN <<WMulSmall(k, n)>> ELSE <<>>

\* usize::checked_add
checked_add(b, x, y) ==
    IF FitsUsize(b, WAdd(x, y)) THEN <<WAdd(x, y)>> ELSE <<>>

\* `start + k * count` in usize, as the unchecked operators compute it:
\* a panic when an overflow check fires, the wrapped value otherwise.
UsizeMulAdd(b, start, k, count) ==
    LET prod == WMulSmall(k, count)
        sum == WAdd(start, WrapUsize(b, prod))
        overflow == ~FitsUsize(b, prod) \/ ~FitsUsize(b, sum)
    IN  [panic |-> overflow /\ overflow_checks(b),
         end |-> WrapUsize(b, sum)]

\* `start + length` in usize.
UsizeAdd(b, start, length) == UsizeMulAdd(b, start, 1, length)

----------------------------------------------------------------------------
(* The section buffer and the fixed-layout records read from it.           *)

HeaderSize == 28

HashEntrySize == 8

NamespaceEntrySize == 24

ValueEntrySize == 20

APISET_VERSION_WINDOWS_10 == 6

\* U32<LittleEndian>::get of the four bytes at byte offset off.
ReadU32(bytes, off) ==
    <<bytes[off + 4] * 256 + bytes[off + 3], bytes[off + 2] * 256 + bytes[off + 1]>>

header_version(bytes) == ReadU32(bytes, 0)

header_count(bytes) == ReadU32(bytes, 12)

header_namespace_entry_offset(bytes) == ReadU32(bytes, 16)

header_hash_entry_offset(bytes) == ReadU32(bytes, 20)

header_hash_factor(bytes) == ReadU32(bytes, 24)

\* <[u8]>::get(start..end) is Some
SliceGet(bytes, start, end) == WLe(start, end) /\ WLe(end, W(Len(bytes)))

\* Range<usize>::len
RangeLen(start, end) == IF WLt(start, end) THEN WSub(end, start) ELSE W(0)

SizeOf(kind) ==
    CASE kind = "hash" -> HashEntrySize
      [] kind = "namespace" -> NamespaceEntrySize
      [] kind = "value" -> ValueEntrySize
      [] OTHER -> 1

\* An iterator: the kind of its records and its Range<usize>.
Entries(kind, start, end) == [kind |-> kind, start |-> start, end |-> end]

NoEntries == Entries("none", W(0), W(0))

\* A record view: the kind and the byte offset of its header.
EntryAt(kind, position) == [kind |-> kind, position |-> position]

NoEntry == EntryAt("none", 0)

\* What an operation returned.  kind is "Ok", "None", "Panic" or the name of
\* the NtApiSetError variant; range, actual, expected, version and
\* entry_offset are the error's fields (range also the byte range of a
\* returned view); arg is the operation's argument.
Res(op, kind) ==
    [op |-> op, kind |-> kind, range |-> <<>>, actual |-> -1, expected |-> -1,
     version |-> <<>>, entry_offset |-> -1, arg |-> <<>>, len |-> -1]

----------------------------------------------------------------------------
(* map.rs                                                                  *)

\* Mutant: decode that also validates the two array ranges.
try_from_apiset_section_bytes_validating(bytes) ==
    IF Len(bytes) < HeaderSize
    THEN [Res("decode", "InvalidMapHeaderSize") EXCEPT
            !.expected = HeaderSize, !.actual = Len(bytes)]
    ELSE IF header_version(bytes) # W(APISET_VERSION_WINDOWS_10)
    THEN [Res("decode", "UnsupportedVersion") EXCEPT !.version = header_version(bytes)]
    ELSE IF ~WLe(WAdd(header_hash_entry_offset(bytes),
                      WMulSmall(HashEntrySize, header_count(bytes))), W(Len(bytes)))
    THEN [Res("decode", "HashEntriesOutOfBounds") EXCEPT !.actual = Len(bytes)]
    ELSE IF ~WLe(WAdd(header_namespace_entry_offset(bytes),
                      WMulSmall(NamespaceEntrySize, header_count(bytes))), W(Len(bytes)))
    THEN [Res("decode", "NamespaceEntriesOutOfBounds") EXCEPT !.actual = Len(bytes)]
    ELSE [Res("decode", "Ok") EXCEPT !.range = <<W(0), W(HeaderSize)>>]

\* Mutant: the version compared as a 16-bit number.
try_from_apiset_section_bytes_u16_version(bytes) ==
    IF Len(bytes) < HeaderSize
    THEN [Res("decode", "InvalidMapHeaderSize") EXCEPT
            !.expected = HeaderSize, !.actual = Len(bytes)]
    ELSE IF header_version(bytes)[2] # APISET_VERSION_WINDOWS_10
    THEN [Res("decode", "UnsupportedVersion") EXCEPT !.version = header_version(bytes)]
    ELSE [Res("decode", "Ok") EXCEPT !.range = <<W(0), W(HeaderSize)>>]

\* Mutant: the version checked as soon as its four bytes are there.
try_from_apiset_section_bytes_version_first(bytes) ==
    IF Len(bytes) >= 4 /\ header_version(bytes) # W(APISET_VERSION_WINDOWS_10)
    THEN [Res("decode", "UnsupportedVersion") EXCEPT !.version = header_version(bytes)]
    ELSE IF Len(bytes) < HeaderSize
    THEN [Res("decode", "InvalidMapHeaderSize") EXCEPT
            !.expected = HeaderSize, !.actual = Len(bytes)]
    ELSE [Res("decode", "Ok") EXCEPT !.range = <<W(0), W(HeaderSize)>>]

try_from_apiset_section_bytes(bytes) ==
    IF Len(bytes) < HeaderSize
    THEN [Res("decode", "InvalidMapHeaderSize") EXCEPT
            !.expected = HeaderSize, !.actual = Len(bytes)]
    ELSE IF header_version(bytes) # W(APISET_VERSION_WINDOWS_10)
    THEN [Res("decode", "UnsupportedVersion") EXCEPT !.version = header_version(bytes)]
    ELSE [Res("decode", "Ok") EXCEPT !.range = <<W(0), W(HeaderSize)>>]

\* Mutant: only the start of the array checked against the buffer.
ArrayRange_start_only(bytes, b, op, error, start, size, count) ==
    LET r == UsizeMulAdd(b, start, size, count)
    IN  IF r.panic THEN Res(op, "Panic")
        ELSE IF ~WLe(start, W(Len(bytes)))
        THEN [Res(op, error) EXCEPT !.range = <<start, r.end>>, !.actual = Len(bytes)]
        ELSE [Res(op, "Ok") EXCEPT !.range = <<start, r.end>>]

\* The range check shared by hash_entries, namespace_entries and
\* value_entries: start..start + size * count against the buffer.
ArrayRange(bytes, b, op, error, start, size, count) ==
    LET r == UsizeMulAdd(b, start, size, count)
    IN  IF r.panic THEN Res(op, "Panic")
        ELSE IF ~SliceGet(bytes, start, r.end)
        THEN [Res(op, error) EXCEPT !.range = <<start, r.end>>, !.actual = Len(bytes)]
        ELSE [Res(op, "Ok") EXCEPT !.range = <<start, r.end>>]

hash_entries(bytes, b) ==
    ArrayRange(bytes, b, "hash_entries", "HashEntriesOutOfBounds",
               header_hash_entry_offset(bytes), HashEntrySize, header_count(bytes))

namespace_entries(bytes, b) ==
    ArrayRange(bytes, b, "namespace_entries", "NamespaceEntriesOutOfBounds",
               header_namespace_entry_offset(bytes), NamespaceEntrySize,
               header_count(bytes))

----------------------------------------------------------------------------
(* The iterators of hash_entry.rs, namespace_entry.rs and value_entry.rs.  *)

\* Iterator::next: the item (NoEntry for None) and the iterator afterwards.
next(bytes, it) ==
    IF ~SliceGet(bytes, it.start, it.end)
    THEN [item |-> NoEntry, it |-> it]
    ELSE IF WLt(WSub(it.end, it.start), W(SizeOf(it.kind)))
    THEN [item |-> NoEntry, it |-> it]
    ELSE [item |-> EntryAt(it.kind, WInt(it.start)),
          it |-> [it EXCEPT !.start = WAdd(it.start, W(SizeOf(it.kind)))]]

\* Mutant: every iterator divides by the size of a hash entry.
size_hint_hash_entry_size(it) == WInt(RangeLen(it.start, it.end)) \div HashEntrySize

\* ExactSizeIterator::len through size_hint
size_hint(it) == WInt(RangeLen(it.start, it.end)) \div SizeOf(it.kind)

\* Iterator::nth of the hash and namespace iterators
nth(bytes, b, it, n) ==
    LET bytes_to_skip == checked_mul(b, n, SizeOf(it.kind))
    IN  IF bytes_to_skip = <<>> THEN [item |-> NoEntry, it |-> it]
        ELSE LET start == checked_add(b, it.start, bytes_to_skip[1])
             IN  IF start = <<>> THEN [item |-> NoEntry, it |-> it]
                 ELSE next(bytes, [it EXCEPT !.start = start[1]])

hash_entry_hash(bytes, e) == ReadU32(bytes, e.position)

hash_entry_index(bytes, e) == ReadU32(bytes, e.position + 4)

----------------------------------------------------------------------------
(* Names and values: an (offset, length) pair resolved against the buffer. *)

\* The check shared by ApiSetNamespaceEntry::name, ApiSetValueEntry::name
\* and ApiSetValueEntry::value.
NameRange(bytes, b, op, e, start, length) ==
    LET r == UsizeAdd(b, start, length)
    IN  IF r.panic THEN Res(op, "Panic")
        ELSE IF ~SliceGet(bytes, start, r.end)
        THEN [Res(op, "EntryNameOutOfBounds") EXCEPT
                !.range = <<start, r.end>>, !.entry_offset = e.position,
                !.actual = Len(bytes)]
        ELSE [Res(op, "Ok") EXCEPT !.range = <<start, r.end>>]

\* ApiSetNamespaceEntry::name and ApiSetValueEntry::name
name(bytes, b, e) ==
    NameRange(bytes, b, "name", e,
              ReadU32(bytes, e.position + 4), ReadU32(bytes, e.position + 8))

\* ApiSetValueEntry::value
value(bytes, b, e) ==
    NameRange(bytes, b, "value", e,
              ReadU32(bytes, e.position + 12), ReadU32(bytes, e.position + 16))

\* ApiSetNamespaceEntry::value_entries
value_entries(bytes, b, e) ==
    ArrayRange(bytes, b, "value_entries", "ValueEntriesOutOfBounds",
               ReadU32(bytes, e.position + 16), ValueEntrySize,
               ReadU32(bytes, e.position + 20))

\* The UTF-16 code units of U16StrLe(bytes[start..end]): whole pairs of
\* bytes, little-endian; a trailing odd byte is not part of any unit.
U16Units(bytes, start, end) ==
    [i \in 1..((end - start) \div 2) |->
        bytes[start + 2 * i - 1] + 256 * bytes[start + 2 * i]]

\* str::encode_utf16 of a string of characters of the basic plane
encode_utf16(str) == [i \in 1..Len(str) |-> str[i] % B16]

\* U16StrLe == &str
U16StrEq(bytes, range, str) ==
    U16Units(bytes, WInt(range[1]), WInt(range[2])) = encode_utf16(str)

----------------------------------------------------------------------------
(* ApiSetMap::find_namespace_entry.  A string is the sequence of its       *)
(* characters' scalar values.                                              *)

Hyphen == 45

is_ascii_lowercase(c) == 97 <= c /\ c <= 122

is_ascii_digit(c) == 48 <= c /\ c <= 57

\* The two debug_assert! conditions on the name.
ValidName(str) ==
    /\ str # <<>>
    /\ \A i \in 1..Len(str) :
          is_ascii_lowercase(str[i]) \/ is_ascii_digit(str[i]) \/ str[i] = Hyphen

\* The position of the last hyphen, 0 when there is none.
LastHyphen(str) ==
    IF \E i \in 1..Len(str) : str[i] = Hyphen
    THEN CHOOSE i \in 1..Len(str) :
            str[i] = Hyphen /\ \A j \in (i + 1)..Len(str) : str[j] # Hyphen
    ELSE 0

\* The first half of str::rsplit_once('-'), for a string with a hyphen.
rsplit_once(str) == SubSeq(str, 1, LastHyphen(str) - 1)

\* chars().fold(0u32, |acc, x| acc.wrapping_mul(hash_factor).wrapping_add(x as u32))
RECURSIVE fold(_, _, _)
fold(acc, hash_factor, str) ==
    IF str = <<>> THEN acc
    ELSE fold(wrapping_add(wrapping_mul(acc, hash_factor), W(Head(str))),
              hash_factor, Tail(str))

\* Mutant: the whole name hashed, its last part included.
name_hash_whole_name(bytes, str) == fold(W(0), header_hash_factor(bytes), str)

name_hash(bytes, str) == fold(W(0), header_hash_factor(bytes), rsplit_once(str))

\* The lookup in progress: the locals of find_namespace_entry, plus the
\* indexes probed so far and the number of names decoded.
IdleSearch ==
    [pc |-> "idle", name |-> <<>>, hash |-> W(0), left |-> 0, right |-> -1,
     hash_entries |-> NoEntries, namespace_entries |-> NoEntries,
     probes |-> <<>>, decoded |-> 0]

\* iter_try!: how an Err of a callee leaves find_namespace_entry.
iter_try(r, str) == [r EXCEPT !.op = "find", !.arg = str]

FindRes(kind, str) == [Res("find", kind) EXCEPT !.arg = str]

\* Mutant: the search starts with right at the length, not the last index.
find_start_right_len(bytes, b, str) ==
    IF debug_assertions(b) /\ ~ValidName(str)
    THEN [done |-> TRUE, res |-> FindRes("Panic", str), search |-> IdleSearch]
    ELSE IF LastHyphen(str) = 0
    THEN [done |-> TRUE, res |-> FindRes("None", str), search |-> IdleSearch]
    ELSE IF hash_entries(bytes, b).kind # "Ok"
    THEN [done |-> TRUE, res |-> iter_try(hash_entries(bytes, b), str),
          search |-> IdleSearch]
    ELSE IF namespace_entries(bytes, b).kind # "Ok"
    THEN [done |-> TRUE, res |-> iter_try(namespace_entries(bytes, b), str),
          search |-> IdleSearch]
    ELSE LET he == Entries("hash", hash_entries(bytes, b).range[1],
                           hash_entries(bytes, b).range[2])
             ne == Entries("namespace", namespace_entries(bytes, b).range[1],
                           namespace_entries(bytes, b).range[2])
         IN  [done |-> FALSE, res |-> FindRes("Searching", str),
              search |-> [pc |-> "loop", name |-> str,
                          hash |-> name_hash(bytes, str),
                          left |-> 0, right |-> size_hint(he),
                          hash_entries |-> he, namespace_entries |-> ne,
                          probes |-> <<>>, decoded |-> 0]]

\* Lines 64-82: the assertions, the split, the hash, the two arrays and the
\* bounds of the search.  done says that the function has returned.
find_start(bytes, b, str) ==
    IF debug_assertions(b) /\ ~ValidName(str)
    THEN [done |-> TRUE, res |-> FindRes("Panic", str), search |-> IdleSearch]
    ELSE IF LastHyphen(str) = 0
    THEN [done |-> TRUE, res |-> FindRes("None", str), search |-> IdleSearch]
    ELSE IF hash_entries(bytes, b).kind # "Ok"
    THEN [done |-> TRUE, res |-> iter_try(hash_entries(bytes, b), str),
          search |-> IdleSearch]
    ELSE IF namespace_entries(bytes, b).kind # "Ok"
    THEN [done |-> TRUE, res |-> iter_try(namespace_entries(bytes, b), str),
          search |-> IdleSearch]
    ELSE LET he == Entries("hash", hash_entries(bytes, b).range[1],
                           hash_entries(bytes, b).range[2])
             ne == Entries("namespace", namespace_entries(bytes, b).range[1],
                           namespace_entries(bytes, b).range[2])
         IN  [done |-> FALSE, res |-> FindRes("Searching", str),
              search |-> [pc |-> "loop", name |-> str,
                          hash |-> name_hash(bytes, str),
                          left |-> 0, right |-> size_hint(he) - 1,
                          hash_entries |-> he, namespace_entries |-> ne,
                          probes |-> <<>>, decoded |-> 0]]

\* Mutant: the candidate's name compared up to the last hyphen only.
find_equal_hashed_part(bytes, b, s, hash_entry) ==
    LET index == hash_entry_index(bytes, hash_entry)
        namespace_entry == nth(bytes, b, s.namespace_entries, index).item
        nm == name(bytes, b, namespace_entry)
        units == U16Units(bytes, WInt(nm.range[1]), WInt(nm.range[2]))
        part == rsplit_once(s.name)
    IN  IF namespace_entry = NoEntry
        THEN [res |-> FindRes("None", s.name), entry |-> NoEntry, decoded |-> 0]
        ELSE IF nm.kind # "Ok"
        THEN [res |-> iter_try(nm, s.name), entry |-> NoEntry, decoded |-> 0]
        ELSE IF Len(units) >= Len(part) /\ SubSeq(units, 1, Len(part)) = part
        THEN [res |-> [FindRes("Ok", s.name) EXCEPT !.range = nm.range],
              entry |-> namespace_entry, decoded |-> 1]
        ELSE [res |-> FindRes("None", s.name), entry |-> NoEntry, decoded |-> 1]

\* Mutant: the namespace entry unwrapped, as the hash entry is.
find_equal_unwrap(bytes, b, s, hash_entry) ==
    LET index == hash_entry_index(bytes, hash_entry)
        namespace_entry == nth(bytes, b, s.namespace_entries, index).item
        nm == name(bytes, b, namespace_entry)
    IN  IF namespace_entry = NoEntry
        THEN [res |-> FindRes("Panic", s.name), entry |-> NoEntry, decoded |-> 0]
        ELSE IF nm.kind # "Ok"
        THEN [res |-> iter_try(nm, s.name), entry |-> NoEntry, decoded |-> 0]
        ELSE IF U16StrEq(bytes, nm.range, s.name)
        THEN [res |-> [FindRes("Ok", s.name) EXCEPT !.range = nm.range],
              entry |-> namespace_entry, decoded |-> 1]
        ELSE [res |-> FindRes("None", s.name), entry |-> NoEntry, decoded |-> 1]

\* Mutant: every hash entry with the hash searched for is tried, until one
\* points to an entry of the name.
find_equal_every_collision(bytes, b, s, hash_entry) ==
    LET at(j) == nth(bytes, b, s.hash_entries, W(j)).item
        cand(j) == nth(bytes, b, s.namespace_entries,
                       hash_entry_index(bytes, at(j))).item
        hit(j) == /\ hash_entry_hash(bytes, at(j)) = s.hash
                  /\ cand(j) # NoEntry
                  /\ name(bytes, b, cand(j)).kind = "Ok"
                  /\ U16StrEq(bytes, name(bytes, b, cand(j)).range, s.name)
        all == 0..(size_hint(s.hash_entries) - 1)
    IN  IF \E j \in all : hit(j)
        THEN LET j == CHOOSE k \in all : hit(k)
             IN  [res |-> [FindRes("Ok", s.name) EXCEPT
                              !.range = name(bytes, b, cand(j)).range],
                  entry |-> cand(j), decoded |-> 1]
        ELSE [res |-> FindRes("None", s.name), entry |-> NoEntry, decoded |-> 1]

\* Lines 89-100: the hash entry at mid has the hash searched for.
find_equal(bytes, b, s, hash_entry) ==
    LET index == hash_entry_index(bytes, hash_entry)
        namespace_entry == nth(bytes, b, s.namespace_entries, index).item
        nm == name(bytes, b, namespace_entry)
    IN  IF namespace_entry = NoEntry
        THEN [res |-> FindRes("None", s.name), entry |-> NoEntry, decoded |-> 0]
        ELSE IF nm.kind # "Ok"
        THEN [res |-> iter_try(nm, s.name), entry |-> NoEntry, decoded |-> 0]
        ELSE IF U16StrEq(bytes, nm.range, s.name)
        THEN [res |-> [FindRes("Ok", s.name) EXCEPT !.range = nm.range],
              entry |-> namespace_entry, decoded |-> 1]
        ELSE [res |-> FindRes("None", s.name), entry |-> NoEntry, decoded |-> 1]

\* Lines 84-107: the loop test and one iteration of the binary search.
find_loop(bytes, b, s) ==
    IF s.left > s.right
    THEN [done |-> TRUE, res |-> FindRes("None", s.name), entry |-> NoEntry,
          search |-> [s EXCEPT !.pc = "done"]]
    ELSE
      LET mid == (s.left + s.right) \div 2
          hash_entry == nth(bytes, b, s.hash_entries, W(mid)).item
          probed == [s EXCEPT !.probes = Append(@, mid)]
      IN  IF hash_entry = NoEntry
          THEN [done |-> TRUE, res |-> FindRes("Panic", s.name), entry |-> NoEntry,
                search |-> [probed EXCEPT !.pc = "done"]]
          ELSE IF hash_entry_hash(bytes, hash_entry) = s.hash
          THEN LET eq == find_equal(bytes, b, s, hash_entry)
               IN  [done |-> TRUE, res |-> eq.res, entry |-> eq.entry,
                    search |-> [probed EXCEPT !.pc = "done", !.decoded = eq.decoded]]
          ELSE IF WLt(hash_entry_hash(bytes, hash_entry), s.hash)
          THEN [done |-> FALSE, res |-> FindRes("Searching", s.name), entry |-> NoEntry,
                search |-> [probed EXCEPT !.left = mid + 1]]
          ELSE [done |-> FALSE, res |-> FindRes("Searching", s.name), entry |-> NoEntry,
                search |-> [probed EXCEPT !.right = mid - 1]]

----------------------------------------------------------------------------
(* The section buffers the model runs on: maps laid out as the record      *)
(* structs of map.rs, hash_entry.rs, namespace_entry.rs and value_entry.rs *)
(* lay them out, then truncated, or with one u32 field overwritten.        *)

MaxCount == 2

MaxNth == 2

\* "a-1", "A-1", "a-2", "ab-0", "b-1", "zz": in the order of their names.
\* "a-1" and "a-2" hash alike (the hash stops at the last hyphen), "A-1" is
\* not a name find_namespace_entry accepts, "zz" has no hyphen.
Pool == << <<97, 45, 49>>, <<65, 45, 49>>, <<97, 45, 50>>,
           <<97, 98, 45, 48>>, <<98, 45, 49>>, <<122, 122>> >>

\* The names asked for: those of the pool, "a-9" (the hash of "a-1", another
\* name) and the empty string.
Queries == {Pool[i] : i \in 1..Len(Pool)} \cup {<<97, 45, 57>>, <<>>}

\* 31 is the factor of the maps Windows ships; 0x80000001 makes the fold wrap.
HashFactors == {W(31), <<32768, 1>>}

Layouts == {1, 2}

\* The name lists of the maps: every choice of at most MaxCount names of the
\* pool, in the pool's order.
RECURSIVE NameLists(_, _)
NameLists(from, n) ==
    IF n = 0 THEN {<<>>}
    ELSE {<<>>} \cup
         UNION {{<<Pool[i]>> \o rest : rest \in NameLists(i + 1, n - 1)} :
                i \in from..Len(Pool)}

U32Bytes(w) == <<w[2] % 256, w[2] \div 256, w[1] % 256, w[1] \div 256>>

RECURSIVE U32sBytes(_)
U32sBytes(ws) == IF ws = <<>> THEN <<>> ELSE U32Bytes(Head(ws)) \o U32sBytes(Tail(ws))

\* The UTF-16LE bytes of a string of the basic plane.
RECURSIVE Utf16Le(_)
Utf16Le(str) ==
    IF str = <<>> THEN <<>>
    ELSE <<Head(str) % 256, Head(str) \div 256>> \o Utf16Le(Tail(str))

RECURSIVE Flatten(_)
Flatten(seqs) == IF seqs = <<>> THEN <<>> ELSE Head(seqs) \o Flatten(Tail(seqs))

RECURSIVE SumLen(_, _)
SumLen(names, n) == IF n = 0 THEN 0 ELSE Len(names[n]) + SumLen(names, n - 1)

\* The part of a name the hash covers.
HashedPart(str) == IF LastHyphen(str) = 0 THEN str ELSE rsplit_once(str)

HashOf(hash_factor, str) == fold(W(0), hash_factor, HashedPart(str))

\* Where each array starts.  Layout 1 is that of apisetschema.dll (the hash
\* entries last); layout 2 puts one byte of padding after the header, so
\* that every record is unaligned, and the names last.
Bases(names, layout) ==
    LET n == Len(names)
        nb == 2 * SumLen(names, n)
    IN  IF layout = 1
        THEN [ns |-> HeaderSize,
              nm |-> HeaderSize + NamespaceEntrySize * n,
              ve |-> HeaderSize + NamespaceEntrySize * n + nb,
              vs |-> HeaderSize + NamespaceEntrySize * n + nb + ValueEntrySize * n,
              hs |-> HeaderSize + NamespaceEntrySize * n + nb + ValueEntrySize * n + 2 * n,
              total |-> HeaderSize + NamespaceEntrySize * n + nb + ValueEntrySize * n
                        + 2 * n + HashEntrySize * n]
        ELSE [hs |-> HeaderSize + 1,
              ns |-> HeaderSize + 1 + HashEntrySize * n,
              ve |-> HeaderSize + 1 + (HashEntrySize + NamespaceEntrySize) * n,
              vs |-> HeaderSize + 1
                     + (HashEntrySize + NamespaceEntrySize + ValueEntrySize) * n,
              nm |-> HeaderSize + 1
                     + (HashEntrySize + NamespaceEntrySize + ValueEntrySize) * n + 2 * n,
              total |-> HeaderSize + 1
                        + (HashEntrySize + NamespaceEntrySize + ValueEntrySize) * n
                        + 2 * n + nb]

\* The positions 1..n in ascending order of their names' hashes.
RECURSIVE InsertByHash(_, _, _, _)
InsertByHash(sorted, i, names, hash_factor) ==
    IF sorted = <<>> THEN <<i>>
    ELSE IF WLt(HashOf(hash_factor, names[i]), HashOf(hash_factor, names[Head(sorted)]))
    THEN <<i>> \o sorted
    ELSE <<Head(sorted)>> \o InsertByHash(Tail(sorted), i, names, hash_factor)

RECURSIVE SortByHash(_, _, _)
SortByHash(n, names, hash_factor) ==
    IF n = 0 THEN <<>>
    ELSE InsertByHash(SortByHash(n - 1, names, hash_factor), n, names, hash_factor)

\* A well-formed map of the given names: one namespace entry per name, each
\* with one value entry (importing module "", host module "k"), and one hash
\* entry per namespace entry, sorted by hash.
BuildMap(names, hash_factor, layout) ==
    LET n == Len(names)
        at == Bases(names, layout)
        order == SortByHash(n, names, hash_factor)
        header == U32sBytes(<<W(APISET_VERSION_WINDOWS_10), W(at.total), W(0), W(n),
                              W(at.ns), W(at.hs), hash_factor>>)
        nsrec == [i \in 1..n |->
                    U32sBytes(<<W(0), W(at.nm + 2 * SumLen(names, i - 1)),
                                W(2 * Len(names[i])), W(2 * Len(HashedPart(names[i]))),
                                W(at.ve + ValueEntrySize * (i - 1)), W(1)>>)]
        nmrec == [i \in 1..n |-> Utf16Le(names[i])]
        verec == [i \in 1..n |->
                    U32sBytes(<<W(0), W(0), W(0), W(at.vs + 2 * (i - 1)), W(2)>>)]
        vsrec == [i \in 1..n |-> Utf16Le(<<107>>)]
        hsrec == [i \in 1..n |->
                    U32sBytes(<<HashOf(hash_factor, names[order[i]]), W(order[i] - 1)>>)]
    IN  IF layout = 1
        THEN header \o Flatten(nsrec) \o Flatten(nmrec) \o Flatten(verec)
             \o Flatten(vsrec) \o Flatten(hsrec)
        ELSE header \o <<0>> \o Flatten(hsrec) \o Flatten(nsrec) \o Flatten(verec)
             \o Flatten(vsrec) \o Flatten(nmrec)

\* The byte offsets of the u32 fields of a map built so.
FieldOffsets(names, layout) ==
    LET n == Len(names)
        at == Bases(names, layout)
    IN  {4 * k : k \in 0..6}
        \cup {at.hs + HashEntrySize * i + 4 * k : i \in 0..(n - 1), k \in 0..1}
        \cup {at.ns + NamespaceEntrySize * i + 4 * k : i \in 0..(n - 1), k \in 0..5}
        \cup {at.ve + ValueEntrySize * i + 4 * k : i \in 0..(n - 1), k \in 0..4}

\* bytes with the u32 at byte offset off overwritten.
Patch(bytes, off, w) ==
    [i \in 1..Len(bytes) |->
        IF off < i /\ i <= off + 4 THEN U32Bytes(w)[i - off] ELSE bytes[i]]

\* The values written over a field: small ones, 0x00010006 (6 in its low
\* half), 0x20000000 (times 8 and times 24 it is a multiple of 2^32),
\* 0x0CCCCCCD (times 20 it is 2^32 + 4) and 0xFFFFFFFF.
PatchValues == {W(0), W(2), W(5), <<1, 6>>, <<8192, 0>>, <<3276, 52429>>, U32Max}

ValidMaps ==
    {BuildMap(names, f, l) : names \in NameLists(1, MaxCount), f \in HashFactors,
                             l \in Layouts}

\* "a-1", "b-1", ... : the first names of a fixed list.
PlainNames(n) == [i \in 1..n |-> <<96 + i, 45, 49>>]

\* Every prefix of a map of 0..MaxCount names, and every prefix of the
\* header of a map whose version is 5.
TruncatedMaps ==
    UNION {{SubSeq(BuildMap(PlainNames(n), W(31), l), 1, t) :
                t \in 0..Bases(PlainNames(n), l).total} :
           n \in 0..MaxCount, l \in Layouts}
    \cup {SubSeq(Patch(BuildMap(<<>>, W(31), 1), 0, W(5)), 1, t) : t \in 0..HeaderSize}

PatchedMaps ==
    UNION {{Patch(BuildMap(PlainNames(n), W(31), 1), off, w) :
                off \in FieldOffsets(PlainNames(n), 1), w \in PatchValues} :
           n \in 0..MaxCount}

\* The largest count of the maps the binary search is run on.
MaxSearchCount == 4

\* The hashes of "a", "b" and "c" under the factor 31.
SearchHashes == {W(97), W(98), W(99)}

\* bytes with the hash of each of the first j hash entries overwritten.
RECURSIVE PatchHashes(_, _, _, _)
PatchHashes(bytes, base, hashes, j) ==
    IF j = 0 THEN bytes
    ELSE PatchHashes(Patch(bytes, base + HashEntrySize * (j - 1), hashes[j]),
                     base, hashes, j - 1)

\* Maps of 0..MaxSearchCount names whose hash entries carry any hashes at
\* all: sorted or not, with or without duplicates.
SearchMaps ==
    UNION {{PatchHashes(BuildMap(PlainNames(n), W(31), 1), Bases(PlainNames(n), 1).hs,
                        hashes, n) : hashes \in [1..n -> SearchHashes]} :
           n \in 0..MaxSearchCount}

----------------------------------------------------------------------------
(* The state machine: one caller, one operation at a time.  A panic ends   *)
(* the program; a lookup in progress runs to its end before anything else. *)

InitOn(buffers) ==
    /\ section_bytes \in buffers
    /\ build \in Builds
    /\ map = "none"
    /\ iter = NoEntries
    /\ yielded = 0
    /\ entry = NoEntry
    /\ result = Res("init", "Ok")
    /\ search = IdleSearch

Ready == map = "ok" /\ result.kind # "Panic" /\ search.pc # "loop"

\* ApiSetMap::try_from_apiset_section_bytes(section_bytes)
Decode ==
    /\ result.op = "init"
    /\ result' = try_from_apiset_section_bytes(section_bytes)
    /\ map' = IF result'.kind = "Ok" THEN "ok" ELSE "none"
    /\ UNCHANGED <<section_bytes, build, iter, yielded, entry, search>>

\* The iterator an Ok of hash_entries, namespace_entries or value_entries holds.
Made(kind, r) == Entries(kind, r.range[1], r.range[2])

WithLen(r, it) == [r EXCEPT !.len = size_hint(it)]

\* A caller that holds nothing yet: the map's operations borrow the map
\* immutably and share no state with an iterator or a record in hand, so
\* the model starts each of them from here.
Fresh == Ready /\ iter = NoEntries /\ entry = NoEntry

\* map.hash_entries()
HashEntries ==
    /\ Fresh
    /\ LET r == hash_entries(section_bytes, build)
       IN  /\ iter' = IF r.kind = "Ok" THEN Made("hash", r) ELSE NoEntries
           /\ result' = IF r.kind = "Ok" THEN WithLen(r, Made("hash", r)) ELSE r
    /\ yielded' = 0
    /\ entry' = NoEntry
    /\ search' = IdleSearch
    /\ UNCHANGED <<section_bytes, build, map>>

\* map.namespace_entries()
NamespaceEntries ==
    /\ Fresh
    /\ LET r == namespace_entries(section_bytes, build)
       IN  /\ iter' = IF r.kind = "Ok" THEN Made("namespace", r) ELSE NoEntries
           /\ result' = IF r.kind = "Ok" THEN WithLen(r, Made("namespace", r)) ELSE r
    /\ yielded' = 0
    /\ entry' = NoEntry
    /\ search' = IdleSearch
    /\ UNCHANGED <<section_bytes, build, map>>

\* What next() or nth() returned: the bytes of the record and the length
\* the iterator reports afterwards.
Drawn(op, n, r) ==
    [Res(op, IF r.item = NoEntry THEN "None" ELSE "Some") EXCEPT
        !.arg = n,
        !.range = IF r.item = NoEntry THEN <<>>
                  ELSE <<W(r.item.position), W(r.item.position + SizeOf(r.item.kind))>>,
        !.len = size_hint(r.it)]

\* iter.next()
Next_ ==
    /\ Ready
    /\ iter.kind # "none"
    /\ LET r == next(section_bytes, iter)
       IN  /\ iter' = r.it
           /\ entry' = r.item
           /\ result' = Drawn("next", <<>>, r)
           /\ yielded' = IF yielded >= 0 /\ r.item # NoEntry THEN yielded + 1 ELSE yielded
    /\ search' = IdleSearch
    /\ UNCHANGED <<section_bytes, build, map>>

\* The arguments of nth(): 0..MaxNth and the largest index a hash entry holds.
NthArgs == {W(n) : n \in 0..MaxNth} \cup {U32Max}

\* iter.nth(n), of the two iterators that define it.  nth() moves the cursor
\* on even when it returns None, without bound; the model calls it once on
\* an iterator, after any number of calls of next().
Nth(n) ==
    /\ Ready
    /\ iter.kind \in {"hash", "namespace"}
    /\ yielded >= 0
    /\ LET r == nth(section_bytes, build, iter, n)
       IN  /\ iter' = r.it
           /\ entry' = r.item
           /\ result' = Drawn("nth", n, r)
    /\ yielded' = -1
    /\ search' = IdleSearch
    /\ UNCHANGED <<section_bytes, build, map>>

\* entry.name(), of a namespace entry or a value entry
Name ==
    /\ Ready
    /\ entry.kind \in {"namespace", "value"}
    /\ result' = name(section_bytes, build, entry)
    /\ search' = IdleSearch
    /\ UNCHANGED <<section_bytes, build, map, iter, yielded, entry>>

\* entry.value(), of a value entry
Value ==
    /\ Ready
    /\ entry.kind = "value"
    /\ result' = value(section_bytes, build, entry)
    /\ search' = IdleSearch
    /\ UNCHANGED <<section_bytes, build, map, iter, yielded, entry>>

\* entry.value_entries(), of a namespace entry; the iterator it returns
\* takes the place of the one in hand.
ValueEntries ==
    /\ Ready
    /\ entry.kind = "namespace"
    /\ LET r == value_entries(section_bytes, build, entry)
       IN  /\ iter' = IF r.kind = "Ok" THEN Made("value", r) ELSE iter
           /\ yielded' = IF r.kind = "Ok" THEN 0 ELSE yielded
           /\ result' = IF r.kind = "Ok" THEN WithLen(r, Made("value", r)) ELSE r
    /\ search' = IdleSearch
    /\ UNCHANGED <<section_bytes, build, map, entry>>

\* map.find_namespace_entry(str), up to the loop; the record of an earlier
\* lookup is dropped.
Find(str) ==
    /\ Ready
    /\ iter = NoEntries
    /\ LET f == find_start(section_bytes, build, str)
       IN  /\ result' = f.res
           /\ search' = f.search
    /\ iter' = NoEntries
    /\ yielded' = 0
    /\ entry' = NoEntry
    /\ UNCHANGED <<section_bytes, build, map>>

\* The loop test and one iteration of the binary search.
FindLoop ==
    /\ search.pc = "loop"
    /\ LET f == find_loop(section_bytes, build, search)
       IN  /\ result' = f.res
           /\ search' = f.search
           /\ entry' = f.entry
    /\ UNCHANGED <<section_bytes, build, map, iter, yielded>>

Next ==
    \/ Decode
    \/ HashEntries
    \/ NamespaceEntries
    \/ Next_
    \/ \E n \in NthArgs : Nth(n)
    \/ Name
    \/ Value
    \/ ValueEntries
    \/ \E str \in Queries : Find(str)
    \/ FindLoop

\* Well-formed maps.
Init == InitOn(ValidMaps)

Spec == Init /\ [][Next]_vars

\* Well-formed maps cut off at every byte boundary.
InitTruncated == InitOn(TruncatedMaps)

SpecTruncated == InitTruncated /\ [][Next]_vars

\* Well-formed maps with one u32 field overwritten.
InitPatched == InitOn(PatchedMaps)

SpecPatched == InitPatched /\ [][Next]_vars

\* Maps with arrays in bounds and arbitrary hashes.
InitSearch == InitOn(SearchMaps)

SpecSearch == InitSearch /\ [][Next]_vars

----------------------------------------------------------------------------
(* What the claims speak of, read from the buffer without the operations   *)
(* under test: ends of ranges are computed without any wrap-around.        *)

BufLen == Len(section_bytes)

Field(off) == ReadU32(section_bytes, off)

HeaderFull == BufLen >= HeaderSize

TrueEnd(start, size, count) == WAdd(start, WMulSmall(size, count))

Fits(start, size, count) == WLe(TrueEnd(start, size, count), W(BufLen))

HashFits == Fits(Field(20), HashEntrySize, Field(12))

NamespaceFits == Fits(Field(16), NamespaceEntrySize, Field(12))

\* The header's count, of a map one of whose arrays fits.
Count == WInt(Field(12))

HashPos(j) == WInt(Field(20)) + HashEntrySize * j

NamespacePos(i) == WInt(Field(16)) + NamespaceEntrySize * i

\* (offset, length) at pos and pos + 4 lies inside the buffer
PairFits(pos) == Fits(Field(pos), 1, Field(pos + 4))

PairUnits(pos) ==
    U16Units(section_bytes, WInt(Field(pos)), WInt(WAdd(Field(pos), Field(pos + 4))))

\* The name of the namespace (or value) entry at pos.
NameFits(pos) == PairFits(pos + 4)

NameAt(pos) == PairUnits(pos + 4)

HashSorted ==
    \A j \in 0..(Count - 2) : WLe(Field(HashPos(j)), Field(HashPos(j + 1)))

\* Arrays and namespace names in bounds, hash array sorted.
WellFormed ==
    /\ HeaderFull
    /\ HashFits
    /\ NamespaceFits
    /\ HashSorted
    /\ \A i \in 0..(Count - 1) : NameFits(NamespacePos(i))

\* The valid maps of the round trip: version 6, well-formed, and every
\* namespace entry has its hash entry (the fold over its name up to the
\* last hyphen, and its position).
ValidMap ==
    /\ WellFormed
    /\ Field(0) = W(APISET_VERSION_WINDOWS_10)
    /\ \A i \in 0..(Count - 1) :
          /\ LastHyphen(NameAt(NamespacePos(i))) # 0
          /\ \E j \in 0..(Count - 1) :
                /\ Field(HashPos(j)) =
                      fold(W(0), Field(24), rsplit_once(NameAt(NamespacePos(i))))
                /\ Field(HashPos(j) + 4) = W(i)

\* find_namespace_entry has returned.
FindDone == result.op = "find" /\ result.kind # "Searching"

Named(str) == \E i \in 0..(Count - 1) : NameAt(NamespacePos(i)) = str

ErrorKinds ==
    {"InvalidMapHeaderSize", "UnsupportedVersion", "HashEntriesOutOfBounds",
     "NamespaceEntriesOutOfBounds", "ValueEntriesOutOfBounds", "EntryNameOutOfBounds"}

\* The hash entry the search probed last.
LastProbePos ==
    WInt(search.hash_entries.start) + HashEntrySize * search.probes[Len(search.probes)]

\* The search ended on a hash entry that carries the hash searched for.
Landed ==
    /\ FindDone
    /\ search.pc = "done"
    /\ search.probes # <<>>
    /\ Field(LastProbePos) = search.hash

----------------------------------------------------------------------------
(* C1: round-trip lookup.  On a valid map, looking up the valid name of a  *)
(* namespace entry returns Some(Ok(entry)) with an entry of that name.     *)
(* This is the claim as made; it fails when another entry has the same     *)
(* hash.                                                                   *)
C1_RoundTripEveryEntry ==
    (FindDone /\ ValidMap /\ ValidName(result.arg) /\ Named(result.arg))
    => /\ result.kind = "Ok"
       /\ entry.kind = "namespace"
       /\ NameAt(entry.position) = result.arg

\* Every hash entry that carries the hash of str points to an entry named str.
HashMeansName(str) ==
    \A j \in 0..(Count - 1) :
        Field(HashPos(j)) = fold(W(0), Field(24), rsplit_once(str))
        => /\ WLt(Field(HashPos(j) + 4), Field(12))
           /\ NameAt(NamespacePos(WInt(Field(HashPos(j) + 4)))) = str

(* C1, amended: on a valid map, looking up the valid name (with a hyphen)  *)
(* of a namespace entry returns Some(Ok(entry)) with an entry of that      *)
(* name, provided every hash entry carrying the name's hash points to an   *)
(* entry of that name.                                                     *)
C1_RoundTrip ==
    (/\ FindDone
     /\ ValidMap
     /\ ValidName(result.arg)
     /\ LastHyphen(result.arg) # 0
     /\ Named(result.arg)
     /\ HashMeansName(result.arg))
    => /\ result.kind = "Ok"
       /\ entry.kind = "namespace"
       /\ NameAt(entry.position) = result.arg

\* A round trip whose hash wrapped past 2^31 and was found at the second probe.
C1_Witness ==
    /\ FindDone
    /\ ValidMap
    /\ ValidName(result.arg)
    /\ Named(result.arg)
    /\ HashMeansName(result.arg)
    /\ result.kind = "Ok"
    /\ NameAt(entry.position) = result.arg
    /\ Len(search.probes) = 2
    /\ search.hash[1] >= 32768

----------------------------------------------------------------------------
ArrayErrorOf(error, start, size, count) ==
    /\ result.kind = error
       => /\ ~Fits(start, size, count)
          /\ result.range[1] = start
          /\ result.range[2] = WrapUsize(build, TrueEnd(start, size, count))
          /\ result.actual = BufLen
    /\ (build.usize_bits = 64 /\ ~Fits(start, size, count))
       => /\ result.kind = error
          /\ result.range = <<start, TrueEnd(start, size, count)>>

----------------------------------------------------------------------------
\* The range the last accessor computed fits the buffer, in true arithmetic.
AccessFits ==
    CASE result.op = "hash_entries" -> HashFits
      [] result.op = "namespace_entries" -> NamespaceFits
      [] result.op = "value_entries" ->
            Fits(Field(entry.position + 16), ValueEntrySize, Field(entry.position + 20))
      [] result.op = "name" -> NameFits(entry.position)
      [] result.op = "value" -> PairFits(entry.position + 12)
      [] OTHER -> TRUE

\* The bounds error of each accessor.
AccessError ==
    CASE result.op = "hash_entries" -> "HashEntriesOutOfBounds"
      [] result.op = "namespace_entries" -> "NamespaceEntriesOutOfBounds"
      [] result.op = "value_entries" -> "ValueEntriesOutOfBounds"
      [] OTHER -> "EntryNameOutOfBounds"

Accessors == {"hash_entries", "namespace_entries", "value_entries", "name", "value"}

\* Every view in the state lies inside the buffer: the map's header, the
\* ranges of the iterators, the record in hand, the range returned.
ViewsInside ==
    /\ map = "ok" => HeaderFull
    /\ iter.kind # "none"
       => (WLe(iter.end, W(BufLen)) /\ (yielded >= 0 => WLe(iter.start, iter.end)))
    /\ entry.kind # "none" => entry.position + SizeOf(entry.kind) <= BufLen
    /\ search.pc # "idle"
       => /\ SliceGet(section_bytes, search.hash_entries.start, search.hash_entries.end)
          /\ SliceGet(section_bytes, search.namespace_entries.start,
                      search.namespace_entries.end)
          /\ \A k \in 1..Len(search.probes) :
                WInt(search.hash_entries.start) + HashEntrySize * (search.probes[k] + 1)
                   <= WInt(search.hash_entries.end)
    /\ (result.kind \in {"Ok", "Some"} /\ result.range # <<>>)
       => SliceGet(section_bytes, result.range[1], result.range[2])

\* The lookup ran past its assertions and its split of the name.
FindChecked ==
    /\ FindDone
    /\ LastHyphen(result.arg) # 0
    /\ ~(debug_assertions(build) /\ ~ValidName(result.arg))

\* The namespace entry a landed search fetched, when its index is in range.
CandidatePos == NamespacePos(WInt(Field(LastProbePos + 4)))

HasCandidate == Landed /\ WLt(Field(LastProbePos + 4), Field(12))

(* C3: bounds safety under truncation.  On every prefix of a valid section *)
(* buffer, every view an operation holds or returns lies inside the        *)
(* buffer, nothing panics (but the debug assertion on an invalid name),    *)
(* and an operation whose header, array range or name range reaches past   *)
(* the end returns its typed bounds error: decode InvalidMapHeaderSize,    *)
(* the accessors their own error, and find_namespace_entry (past its       *)
(* split of the name) the error of the hash array, else of the namespace   *)
(* array, else of the name of the entry it fetched.                        *)
C3_TruncationSafe ==
    /\ ViewsInside
    /\ result.kind = "Panic"
       => (result.op = "find" /\ debug_assertions(build) /\ ~ValidName(result.arg))
    /\ (result.op = "decode" /\ ~HeaderFull) => result.kind = "InvalidMapHeaderSize"
    /\ (result.op \in Accessors /\ ~AccessFits) => result.kind = AccessError
    /\ (result.op \in Accessors /\ result.kind \in ErrorKinds)
       => (result.kind = AccessError /\ ~AccessFits /\ result.actual = BufLen)
    /\ (FindChecked /\ ~HashFits) => result.kind = "HashEntriesOutOfBounds"
    /\ (FindChecked /\ HashFits /\ ~NamespaceFits)
       => result.kind = "NamespaceEntriesOutOfBounds"
    /\ (HasCandidate /\ ~NameFits(CandidatePos)) => result.kind = "EntryNameOutOfBounds"
    /\ (FindDone /\ result.kind = "Ok")
       => (HasCandidate /\ entry.position = CandidatePos /\ NameFits(CandidatePos))

\* The truncation cut the name of the entry a lookup fetched, and both
\* arrays are whole.
C3_Witness ==
    /\ HeaderFull
    /\ BufLen < WInt(Field(4))
    /\ HasCandidate
    /\ ~NameFits(CandidatePos)
    /\ result.kind = "EntryNameOutOfBounds"
    /\ result.actual = BufLen

----------------------------------------------------------------------------
(* C4: overflow guard.  For every 32-bit offset, count and length, the     *)
(* accessors hash_entries, namespace_entries, value_entries, name and      *)
(* value never abort, and return their out-of-bounds error whenever the    *)
(* true end of the range, computed without wrap-around, exceeds the        *)
(* buffer.  The code computes the end with the unchecked + and * of usize: *)
(* with a 32-bit usize it panics (dev) or accepts a wrapped range          *)
(* (release).                                                              *)
C4_OverflowGuard ==
    result.op \in Accessors
    => /\ result.kind # "Panic"
       /\ ~AccessFits => result.kind = AccessError

----------------------------------------------------------------------------
(* C5: unsupported version.  For every buffer of at least 28 bytes,        *)
(* try_from_apiset_section_bytes fails with UnsupportedVersion carrying    *)
(* the version field when that field is not 6, and never with              *)
(* UnsupportedVersion when it is 6.                                        *)
C5_UnsupportedVersion ==
    (result.op = "decode" /\ HeaderFull)
    => IF Field(0) # W(APISET_VERSION_WINDOWS_10)
       THEN result.kind = "UnsupportedVersion" /\ result.version = Field(0) /\ map = "none"
       ELSE result.kind # "UnsupportedVersion"

\* Version 0x00010006, whose low half is 6, was rejected.
C5_Witness ==
    /\ result.op = "decode"
    /\ result.kind = "UnsupportedVersion"
    /\ result.version = <<1, 6>>
    /\ BufLen > HeaderSize

----------------------------------------------------------------------------
(* C6: header too small.  For every buffer shorter than 28 bytes,          *)
(* try_from_apiset_section_bytes fails with InvalidMapHeaderSize, expected *)
(* 28 and actual the buffer's length, whatever version its first bytes     *)
(* hold.                                                                   *)
C6_HeaderTooSmall ==
    (result.op = "decode" /\ BufLen < HeaderSize)
    => /\ result.kind = "InvalidMapHeaderSize"
       /\ result.expected = 28
       /\ result.actual = BufLen
       /\ result.version = <<>>
       /\ map = "none"

\* A short buffer whose first four bytes hold version 5.
C6_Witness ==
    /\ result.op = "decode"
    /\ result.kind = "InvalidMapHeaderSize"
    /\ 4 <= BufLen
    /\ BufLen < HeaderSize
    /\ Field(0) = W(5)

----------------------------------------------------------------------------
(* C7: negative lookup.  On a well-formed map, find_namespace_entry of a   *)
(* valid name that no namespace entry has returns None; and whenever       *)
(* find_namespace_entry returns an error, the map is not well-formed.      *)
C7_NegativeLookup ==
    FindDone
    => /\ (WellFormed /\ ValidName(result.arg) /\ ~Named(result.arg))
          => (result.kind = "None" /\ entry = NoEntry)
       /\ result.kind \in ErrorKinds => ~WellFormed

\* A valid name of no entry, with the hash of an entry: the names were
\* compared.
C7_Witness ==
    /\ FindDone
    /\ WellFormed
    /\ Count = MaxCount
    /\ ValidName(result.arg)
    /\ ~Named(result.arg)
    /\ HasCandidate
    /\ search.decoded = 1
    /\ result.kind = "None"

----------------------------------------------------------------------------
(* C8: precondition violation in release builds.  With debug assertions    *)
(* disabled, find_namespace_entry of a name that is empty or has a         *)
(* character other than a lowercase letter, a digit or a hyphen returns    *)
(* None, for every map.  The code returns the entry when the map holds     *)
(* one of that name, and an error when the map is malformed.               *)
C8_InvalidNameIsNone ==
    (FindDone /\ ~debug_assertions(build) /\ ~ValidName(result.arg))
    => result.kind = "None"

----------------------------------------------------------------------------
\* The offset of the array the iterator in hand runs over.
ArrayOffset == IF iter.kind = "hash" THEN Field(20) ELSE Field(16)

(* C9: iterator length.  On a map whose arrays are in bounds,              *)
(* hash_entries() and namespace_entries() report the header's count as     *)
(* length; next() yields exactly count records; after k of them the length *)
(* reported is count - k; and the i-th record yielded (from 0) is the one  *)
(* at array_offset + i * record_size.                                      *)
C9_IteratorLength ==
    (map = "ok" /\ HashFits /\ NamespaceFits)
    => /\ result.op \in {"hash_entries", "namespace_entries"}
          => (result.kind = "Ok" /\ result.len = Count /\ yielded = 0)
       /\ (result.op = "next" /\ iter.kind \in {"hash", "namespace"} /\ yielded >= 0)
          => IF result.kind = "Some"
             THEN /\ yielded <= Count
                  /\ result.len = Count - yielded
                  /\ entry.kind = iter.kind
                  /\ entry.position =
                        WInt(ArrayOffset) + (yielded - 1) * SizeOf(iter.kind)
             ELSE /\ yielded = Count
                  /\ result.len = 0
                  /\ entry = NoEntry

\* The last of MaxCount namespace entries was yielded: none is left.
C9_Witness ==
    /\ HashFits
    /\ NamespaceFits
    /\ result.op = "next"
    /\ result.kind = "Some"
    /\ iter.kind = "namespace"
    /\ yielded = MaxCount
    /\ Count = MaxCount
    /\ result.len = 0

----------------------------------------------------------------------------
(* C10: untrusted index.  When the search lands on a hash entry with the   *)
(* hash searched for whose index is not below count, the lookup returns    *)
(* None: no error, no panic, no entry.                                     *)
C10_UntrustedIndex ==
    (Landed /\ ~WLt(Field(LastProbePos + 4), Field(12)))
    => /\ result.kind = "None"
       /\ entry = NoEntry
       /\ search.decoded = 0

\* The index is 0xFFFFFFFF: times 24 it overflows a 32-bit usize.
C10_Witness ==
    /\ Landed
    /\ Field(LastProbePos + 4) = U32Max
    /\ build.usize_bits = 32
    /\ result.kind = "None"

----------------------------------------------------------------------------
(* C11: candidate verification.  When the search lands on a hash entry     *)
(* with the hash searched for and its index names a namespace entry, the   *)
(* lookup decodes that entry's name and compares it with the whole query:  *)
(* a name range outside the buffer returns EntryNameOutOfBounds, an equal  *)
(* name returns the entry, another name returns None.  The name's end is   *)
(* computed with the unchecked + of usize: with a 32-bit usize and an      *)
(* offset and a length that add up to 2^32 or more, the dev build panics.  *)
C11_CandidateVerification ==
    HasCandidate
    => IF ~NameFits(CandidatePos)
       THEN /\ result.kind = "EntryNameOutOfBounds"
            /\ result.entry_offset = CandidatePos
            /\ entry = NoEntry
       ELSE IF NameAt(CandidatePos) = encode_utf16(result.arg)
       THEN /\ result.kind = "Ok"
            /\ entry = EntryAt("namespace", CandidatePos)
       ELSE /\ result.kind = "None"
            /\ entry = NoEntry

----------------------------------------------------------------------------
\* The hash entries that carry the hash h.
HashEntriesWith(h) == {j \in 0..(Count - 1) : Field(HashPos(j)) = h}

\* The hash entry the search probed last, as an index.
LastProbe == search.probes[Len(search.probes)]

(* C12: hash collisions.  When two or more hash entries carry the hash     *)
(* searched for, the search stops at the first probe that reads one of     *)
(* them: no earlier probe read that hash, at most one name is decoded, and *)
(* the result is that hash entry's namespace entry when its name equals    *)
(* the query and None otherwise, whatever the other hash entries of that   *)
(* hash point to.  When no probe reads the hash the result is None.        *)
C12_HashCollisions ==
    (FindDone /\ search.pc = "done" /\ Cardinality(HashEntriesWith(search.hash)) >= 2)
    => /\ \A k \in 1..(Len(search.probes) - 1) :
             Field(HashPos(search.probes[k])) # search.hash
       /\ search.decoded <= 1
       /\ IF Landed
          THEN IF /\ HasCandidate
                  /\ NameFits(CandidatePos)
                  /\ NameAt(CandidatePos) = encode_utf16(result.arg)
               THEN /\ result.kind = "Ok"
                    /\ entry = EntryAt("namespace", CandidatePos)
               ELSE /\ result.kind = "None"
                    /\ entry = NoEntry
          ELSE result.kind = "None"

\* The search landed on an entry of another name and returned None, while
\* another hash entry of the same hash points to the entry of the name.
C12_Witness ==
    /\ Landed
    /\ result.kind = "None"
    /\ search.decoded = 1
    /\ \E j \in HashEntriesWith(search.hash) :
          /\ j # LastProbe
          /\ WLt(Field(HashPos(j) + 4), Field(12))
          /\ NameAt(NamespacePos(WInt(Field(HashPos(j) + 4)))) = encode_utf16(result.arg)

----------------------------------------------------------------------------
\* floor(log2(n)), of n >= 1
RECURSIVE Log2Floor(_)
Log2Floor(n) == IF n <= 1 THEN 0 ELSE 1 + Log2Floor(n \div 2)

\* The most hash entries a binary search over n of them reads.
ProbeBound(n) == IF n <= 0 THEN 0 ELSE Log2Floor(n) + 1

(* C13: search termination and probe bound.  On a map whose arrays are in  *)
(* bounds, whatever the order of its hashes and whatever the query, the    *)
(* loop of find_namespace_entry reads at most floor(log2(count)) + 1 hash  *)
(* entries (none when count is 0); while it runs, the entries read so far  *)
(* plus the most a search of what is left between left and right can read  *)
(* stay within that bound, so the loop ends; every index probed is in      *)
(* 0..count-1 and the unwrap of the probed record does not panic (the     *)
(* lookup panics, if at all, past a probe that read the hash searched      *)
(* for); and at most one name is decoded, past such a probe.               *)
C13_ProbeBound ==
    (result.op = "find" /\ search.pc # "idle" /\ HashFits /\ NamespaceFits)
    => /\ Len(search.probes) <= ProbeBound(Count)
       /\ search.pc = "loop"
          => Len(search.probes) + ProbeBound(search.right - search.left + 1)
                <= ProbeBound(Count)
       /\ \A k \in 1..Len(search.probes) :
             0 <= search.probes[k] /\ search.probes[k] < Count
       /\ result.kind = "Panic" => Landed
       /\ search.decoded <= 1
       /\ search.decoded = 1 => Landed

\* A search of an unsorted array of MaxSearchCount hashes that read as many
\* entries as the bound allows and decoded no name.
C13_Witness ==
    /\ FindDone
    /\ search.pc = "done"
    /\ HashFits
    /\ NamespaceFits
    /\ Count = MaxSearchCount
    /\ ~HashSorted
    /\ Len(search.probes) = ProbeBound(Count)
    /\ search.decoded = 0
    /\ result.kind = "None"

----------------------------------------------------------------------------
\* The records the calls of next() to come yield, in order.
RECURSIVE Remaining(_, _)
Remaining(bytes, it) ==
    LET r == next(bytes, it)
    IN  IF r.item = NoEntry THEN <<>> ELSE <<r.item>> \o Remaining(bytes, r.it)

\* next() called k >= 1 times, the last result kept.  Once next() has
\* returned None it returns None again and leaves the iterator as it is.
RECURSIVE RepeatedNext(_, _, _)
RepeatedNext(bytes, it, k) ==
    LET r == next(bytes, it)
    IN  IF k <= 1 \/ r.item = NoEntry THEN r ELSE RepeatedNext(bytes, r.it, k - 1)

\* n + 1 calls, or as many as it takes to see the end of the sequence.
CallsFor(it, n) ==
    IF WFitsInt(n) /\ WInt(n) <= size_hint(it) THEN WInt(n) + 1 ELSE size_hint(it) + 1

(* C14: nth equals repeated next.  For the hash-entry and namespace-entry  *)
(* iterators and every n, nth(n) returns what the last of n + 1 calls of   *)
(* next() returns and leaves the same records to come; when it returns     *)
(* None the sequence is ended: no record is to come and the length is 0.   *)
(* The code returns None from nth() before it moves the cursor when        *)
(* n * record_size or the addition overflows: the iterator is left as it   *)
(* was, with all its records to come.                                      *)
C14_NthIsRepeatedNext ==
    [][\A n \in NthArgs :
          Nth(n) =>
             LET r == RepeatedNext(section_bytes, iter, CallsFor(iter, n))
             IN  /\ entry' = r.item
                 /\ Remaining(section_bytes, iter') = Remaining(section_bytes, r.it)
                 /\ entry' = NoEntry
                    => (result'.len = 0 /\ Remaining(section_bytes, iter') = <<>>)]_vars

----------------------------------------------------------------------------
(* C15: order of checks in find_namespace_entry.  Past the assertions of   *)
(* the dev build: a name without a hyphen returns None before any array is *)
(* looked at, whatever the arrays; for a name with a hyphen, a hash array  *)
(* that does not fit the buffer returns HashEntriesOutOfBounds, else a     *)
(* namespace array that does not fit returns NamespaceEntriesOutOfBounds,  *)
(* in both cases before any hash entry is read.  The code computes the     *)
(* arrays' ends with the unchecked + and * of usize: with a 32-bit usize a *)
(* count of 0x20000000 panics (dev) or is searched as an empty array and   *)
(* returns None (release).                                                 *)
C15_OrderOfChecks ==
    (FindDone /\ ~(debug_assertions(build) /\ ~ValidName(result.arg)))
    => /\ LastHyphen(result.arg) = 0
          => (result.kind = "None" /\ search.pc = "idle")
       /\ (LastHyphen(result.arg) # 0 /\ ~HashFits)
          => /\ result.kind = "HashEntriesOutOfBounds"
             /\ search.pc = "idle"
             /\ search.probes = <<>>
       /\ (LastHyphen(result.arg) # 0 /\ HashFits /\ ~NamespaceFits)
          => /\ result.kind = "NamespaceEntriesOutOfBounds"
             /\ search.pc = "idle"
             /\ search.probes = <<>>

====
